---------------------------- MODULE Spec2Model ----------------------------
(***************************************************************************)
(* Model of the foodgram backend (Django + Django REST framework).         *)
(*                                                                         *)
(* The state is the persisted store (the tables of recipes/models.py and   *)
(* users/models.py), the get_or_create calls that are between their SELECT *)
(* and their INSERT, and the last HTTP response.  Every request handler of *)
(* api/views.py is one action; the handlers that go through                *)
(* QuerySet.get_or_create are two steps, because the SELECT and the INSERT *)
(* of two requests can interleave.                                         *)
(*                                                                         *)
(* The code under src/ opens no transaction (no transaction.atomic), so    *)
(* every ORM statement commits on its own (Django's autocommit): a handler *)
(* that raises after a write leaves that write in the store.               *)
(***************************************************************************)
EXTENDS Integers, Sequences, FiniteSets, Bags, TLC

\* ------------------------------------------------------------------ bounds
MaxRows     == 2     \* RecipeIngredients rows in the table at one time
MaxLines    == 2     \* ingredient lines of a write payload
MaxInflight == 2     \* get_or_create calls between SELECT and INSERT

\* --------------------------------------------------------------- the data
Anonymous == 0                    \* request.user of an unauthenticated call
Users     == {1, 2, 3}            \* users.User rows (registration is djoser's)
Callers   == Users \cup {Anonymous}
MissingUser == 4                  \* a pk with no User row
Tags      == {1}                  \* recipes.Tag rows (read-only through the API)
Names     == {"soup", "pie"}      \* recipe names a payload can carry
RecipeIds == {1, 2}               \* the pks Recipe rows are given
Amounts   == {1, 2}               \* amounts an ingredient line can carry
NoRecipe  == [author |-> Anonymous, name |-> "", tags |-> {}]  \* no such row

\* The ingredient catalog.  Ingredient.Meta makes (name, measurement_unit)
\* unique, not name: ingredients 1 and 2 share a name.
Ingredient ==
    [i \in {1, 2, 3} |->
        CASE i = 1 -> [name |-> "flour", measurement_unit |-> "g"]
          [] i = 2 -> [name |-> "flour", measurement_unit |-> "kg"]
          [] i = 3 -> [name |-> "salt",  measurement_unit |-> "g"]]
IngredientIds == DOMAIN Ingredient

\* The "id" of an ingredient line as the JSON body carries it: a number (1)
\* or a string ("1") that names the pk, or no id at all.
RawIds == [json : {"number", "string"}, pk : IngredientIds]
NoId   == [json |-> "null", pk |-> 0]

VARIABLES
    recipe,             \* Recipe rows: id -> [author, name, tags] or NoRecipe
    next_recipe_id,     \* the AutoField of Recipe
    recipeingredients,  \* RecipeIngredients rows in ascending id order
    favorite,           \* Favorite rows: a bag of <<user, recipe>>
    shoppingcart,       \* ShoppingCart rows: a bag of <<user, recipe>>
    subscription,       \* Subscription rows: a bag of <<user, author>>
    inflight,           \* get_or_create calls whose SELECT found no row
    response            \* the last response sent

vars == <<recipe, next_recipe_id, recipeingredients, favorite, shoppingcart,
          subscription, inflight, response>>

\* The tables a recipe write touches.
recipe_store == <<recipe, recipeingredients>>

Init ==
    /\ recipe = [r \in RecipeIds |-> NoRecipe]
    /\ next_recipe_id = 1
    /\ recipeingredients = <<>>
    /\ favorite = EmptyBag
    /\ shoppingcart = EmptyBag
    /\ subscription = EmptyBag
    /\ inflight = EmptyBag
    /\ response = [op |-> "none", status |-> 0, error |-> "none",
                   user |-> Anonymous, id |-> 0, repeated |-> FALSE,
                   body |-> <<>>]

\* A response: the handler that answered, its status and the exception or
\* the branch that produced it.  user and id name the caller and the object
\* of the url where a handler logs them, repeated logs whether a write
\* payload named an ingredient twice, and body is the document of an export.
Response(op, status, error) ==
    [op |-> op, status |-> status, error |-> error, user |-> Anonymous,
     id |-> 0, repeated |-> FALSE, body |-> <<>>]

\* ------------------------------------------------------------ sequences
RECURSIVE SelectSeq2(_, _)
\* The rows of a table that are not of recipe r, in id order.
SelectSeq2(rows, r) ==
    IF rows = <<>> THEN <<>>
    ELSE IF Head(rows).recipe = r THEN SelectSeq2(Tail(rows), r)
         ELSE <<Head(rows)>> \o SelectSeq2(Tail(rows), r)

SeqsUpTo(S, n) == UNION {[1..k -> S] : k \in 0..n}

\* Rows of the RecipeIngredients table that belong to recipe r.
RowsOf(rows, r) == {rows[i] : i \in {j \in 1..Len(rows) : rows[j].recipe = r}}

\* ------------------------------------------------------ the write payload
Lines == [id : RawIds \cup {NoId}, amount : Amounts \cup {0}]
Payloads ==
    [tags : SUBSET Tags,
     ingredients : SeqsUpTo(Lines, MaxLines),
     name : Names \cup {""},
     text : {"text"},
     cooking_time : {0, 1}]

\* PrimaryKeyRelatedField.to_internal_value: Ingredient.objects.get(pk=data)
\* finds the row for the number and for the string alike; 0 is no row.
to_internal_value(id) == IF id.pk \in IngredientIds THEN id.pk ELSE 0

\* Two lines of the payload name the same ingredient.
RepeatedId(ingredients) ==
    \E i, j \in 1..Len(ingredients) :
        /\ i < j
        /\ to_internal_value(ingredients[i].id) # 0
        /\ to_internal_value(ingredients[i].id)
               = to_internal_value(ingredients[j].id)

\* ---------------------------------------------------------------- queries
\* Recipe.objects.filter(id=r).exists()
RecipeExists(r) == r \in RecipeIds /\ recipe[r] # NoRecipe

\* Recipe.objects.filter(author=a, name=n).exists(): the rows the
\* UniqueConstraint on (author, name) compares a new row with.
RecipeNameTaken(a, n) ==
    \E r \in RecipeIds : RecipeExists(r) /\ recipe[r].author = a
                                         /\ recipe[r].name = n

\* RecipeSerializer.ingredients of recipe r, as (ingredient, amount) pairs.
IngredientsOf(rows, r) == {<<x.ingredient, x.amount>> : x \in RowsOf(rows, r)}

\* ------------------------------------------------------------- validation
\* "not initial_data.get(field)": Python's truth value of a payload field.
FalsyField(p, field) ==
    CASE field = "tags"         -> p.tags = {}
      [] field = "ingredients"  -> p.ingredients = <<>>
      [] field = "name"         -> p.name = ""
      [] field = "text"         -> p.text = ""
      [] field = "cooking_time" -> p.cooking_time = 0

RequiredFields == <<"tags", "ingredients", "name", "text", "cooking_time">>

\* The serializer fields' own validation, which DRF runs before validate():
\* every line's id is an Ingredient pk and its amount passes
\* MinValueValidator(1); name and text are not blank; cooking_time passes
\* MinValueValidator(1).  tags and ingredients may be empty lists here.
FieldsValid(p) ==
    /\ \A i \in 1..Len(p.ingredients) :
          /\ to_internal_value(p.ingredients[i].id) \in IngredientIds
          /\ p.ingredients[i].amount >= 1
    /\ p.name # ""
    /\ p.text # ""
    /\ p.cooking_time >= 1

RECURSIVE validate_ingredients(_, _, _)
\* The loop of validate() from line i on, with ingredients_set = seen.  It
\* reads initial_data, the ids as the body carries them: 1 and "1" are two
\* members of a Python set.
validate_ingredients(ingredients, i, seen) ==
    IF i > Len(ingredients) THEN "none"
    ELSE LET amount == ingredients[i].amount
             ingredient_id == ingredients[i].id
         IN  IF amount = 0 \/ ingredient_id = NoId THEN "amount_and_id"
             ELSE IF ~(amount > 0) THEN "amount_below_1"
             ELSE IF ingredient_id \in seen THEN "repeated_ingredients"
             ELSE validate_ingredients(ingredients, i + 1,
                                       seen \cup {ingredient_id})

\* RecipeCreateSerializer.validate: the error it raises, or "none".
validate(p) ==
    IF \E k \in 1..Len(RequiredFields) : FalsyField(p, RequiredFields[k])
    THEN "field_not_filled"
    ELSE validate_ingredients(p.ingredients, 1, {})

\* serializer.is_valid(raise_exception=True): the error of the 400, or "none".
is_valid(p) == IF ~FieldsValid(p) THEN "invalid_field" ELSE validate(p)

\* -------------------------------------------------------- object lookup
Max(a, b) == IF a >= b THEN a ELSE b

\* Rows of an interaction table (a bag of <<user, recipe>>) for recipe r.
RowsForRecipe(table, r) ==
    LET pairs == {e \in BagToSet(table) : e[2] = r}
    IN  BagCardinality([e \in pairs |-> table[e]])

\* Rows that RecipeViewSet.get_queryset returns for recipe r.  For an
\* authenticated user the two annotations join the favorite and the
\* shoppingcart tables (LEFT OUTER JOIN), one result row per joined pair.
QuerysetCopies(user, r) ==
    IF user = Anonymous THEN 1
    ELSE Max(1, RowsForRecipe(favorite, r))
         * Max(1, RowsForRecipe(shoppingcart, r))

\* IsAuthorOrReadOnly.has_object_permission for an unsafe method.
has_object_permission(user, r) == recipe[r].author = user

\* The statuses DRF's permission_denied can answer an unauthenticated
\* request with (the authentication classes are set in settings).
DeniedStatus(user) == IF user = Anonymous THEN {401, 403} ELSE {403}

\* GenericAPIView.get_object for an unsafe method: "ok" or the error.
get_object(user, r) ==
    IF ~RecipeExists(r) THEN "not_found"
    ELSE IF QuerysetCopies(user, r) > 1 THEN "multiple_objects_returned"
    ELSE IF ~has_object_permission(user, r) THEN "permission_denied"
    ELSE "ok"

\* --------------------------------------------------------- recipe writes
\* create_recipe_ingredient: line 286 rebinds `ingredient` to the Ingredient
\* instance and line 287 subscripts that instance, which raises TypeError on
\* the first line of the loop; bulk_create is reached for an empty list only.
create_recipe_ingredient(r, ingredients) ==
    IF Len(ingredients) > 0
    THEN [raised |-> TRUE, rows |-> <<>>]
    ELSE [raised |-> FALSE, rows |-> <<>>]

\* instance.ingredients.clear(): the through rows of recipe r are deleted.
ClearIngredients(rows, r) == SelectSeq2(rows, r)

WriteResponse(op, status, error, p) ==
    [Response(op, status, error) EXCEPT
        !.repeated = RepeatedId(p.ingredients)]

\* POST /recipes/ : ModelViewSet.create with RecipeCreateSerializer.create.
CreateRecipe(user, p) ==
    LET error == is_valid(p)
        r == next_recipe_id
        made == create_recipe_ingredient(r, p.ingredients)
    IN
    /\ UNCHANGED <<favorite, shoppingcart, subscription, inflight>>
    /\ IF error # "none"
       THEN /\ response' = WriteResponse("create", 400, error, p)
            /\ UNCHANGED <<recipe, next_recipe_id, recipeingredients>>
       ELSE IF user = Anonymous
       THEN \* Recipe(author=AnonymousUser) raises ValueError
            /\ response' = WriteResponse("create", 500, "value_error", p)
            /\ UNCHANGED <<recipe, next_recipe_id, recipeingredients>>
       ELSE IF RecipeNameTaken(user, p.name)
       THEN \* the UniqueConstraint on (author, name) refuses the INSERT
            /\ response' = WriteResponse("create", 500, "integrity_error", p)
            /\ UNCHANGED <<recipe, next_recipe_id, recipeingredients>>
       ELSE /\ r \in RecipeIds
            \* Recipe.objects.create(...); recipe.tags.set(tags)
            /\ recipe' = [recipe EXCEPT ![r] =
                    [author |-> user, name |-> p.name, tags |-> p.tags]]
            /\ next_recipe_id' = r + 1
            /\ recipeingredients' = recipeingredients \o made.rows
            /\ response' =
                   IF made.raised
                   THEN WriteResponse("create", 500, "type_error", p)
                   ELSE WriteResponse("create", 201, "none", p)

\* PUT/PATCH /recipes/{r}/ : ModelViewSet.update with
\* RecipeCreateSerializer.update.
UpdateRecipe(user, r, p) ==
    LET found == get_object(user, r)
        error == is_valid(p)
        made == create_recipe_ingredient(r, p.ingredients)
        taken == \E o \in RecipeIds \ {r} :
                    /\ RecipeExists(o)
                    /\ recipe[o].author = recipe[r].author
                    /\ recipe[o].name = p.name
    IN
    /\ UNCHANGED <<next_recipe_id, favorite, shoppingcart, subscription,
                   inflight>>
    /\ IF found = "not_found"
       THEN /\ response' = WriteResponse("update", 404, found, p)
            /\ UNCHANGED <<recipe, recipeingredients>>
       ELSE IF found = "multiple_objects_returned"
       THEN /\ response' = WriteResponse("update", 500, found, p)
            /\ UNCHANGED <<recipe, recipeingredients>>
       ELSE IF found = "permission_denied"
       THEN /\ \E st \in DeniedStatus(user) :
                   response' = WriteResponse("update", st, found, p)
            /\ UNCHANGED <<recipe, recipeingredients>>
       ELSE IF error # "none"
       THEN /\ response' = WriteResponse("update", 400, error, p)
            /\ UNCHANGED <<recipe, recipeingredients>>
       ELSE \* ingredients.clear(); tags.clear(); tags.set(tags)
            /\ recipeingredients' =
                   ClearIngredients(recipeingredients, r) \o made.rows
            /\ IF made.raised
               THEN /\ recipe' = [recipe EXCEPT ![r].tags = p.tags]
                    /\ response' =
                           WriteResponse("update", 500, "type_error", p)
               ELSE IF taken
               THEN /\ recipe' = [recipe EXCEPT ![r].tags = p.tags]
                    /\ response' =
                           WriteResponse("update", 500, "integrity_error", p)
               ELSE \* super().update(instance, validated_data)
                    /\ recipe' = [recipe EXCEPT ![r].tags = p.tags,
                                                ![r].name = p.name]
                    /\ response' = WriteResponse("update", 200, "none", p)

\* on_delete without the cascade: the rows of a deleted recipe stay.
WithoutRecipe_kept(table, r) == table

\* The rows of an interaction table that are not of recipe r
\* (on_delete=CASCADE of BaseInteractionModel.recipe).
WithoutRecipe(table, r) ==
    [e \in {x \in BagToSet(table) : x[2] # r} |-> table[e]]

\* DELETE /recipes/{r}/ : ModelViewSet.destroy; the delete cascades.
DestroyRecipe(user, r) ==
    LET found == get_object(user, r)
    IN
    /\ UNCHANGED <<next_recipe_id, subscription, inflight>>
    /\ IF found = "ok"
       THEN /\ recipe' = [recipe EXCEPT ![r] = NoRecipe]
            /\ recipeingredients' = ClearIngredients(recipeingredients, r)
            /\ favorite' = WithoutRecipe(favorite, r)
            /\ shoppingcart' = WithoutRecipe(shoppingcart, r)
            /\ response' = Response("destroy", 204, "none")
       ELSE /\ UNCHANGED <<recipe, recipeingredients, favorite,
                           shoppingcart>>
            /\ \E st \in (CASE found = "not_found" -> {404}
                             [] found = "multiple_objects_returned" -> {500}
                             [] OTHER -> DeniedStatus(user)) :
                   response' = Response("destroy", st, found)

\* ------------------------------------------------------------ admin site
\* A (recipe, ingredient) row exists: what the UniqueConstraint of
\* RecipeIngredients.Meta compares a new row with.
HasIngredient(rows, r, i) ==
    \E x \in RowsOf(rows, r) : x.ingredient = i

\* RecipeIngredientsAdmin "add" (or one more inline row of RecipeAdmin).
AdminAddRecipeIngredient(r, i, amount) ==
    /\ RecipeExists(r)
    /\ ~HasIngredient(recipeingredients, r, i)
    /\ Len(recipeingredients) < MaxRows
    /\ recipeingredients' = Append(recipeingredients,
            [recipe |-> r, ingredient |-> i, amount |-> amount])
    /\ response' = Response("admin", 302, "none")
    /\ UNCHANGED <<recipe, next_recipe_id, favorite, shoppingcart,
                   subscription, inflight>>

\* ------------------------------------------- favorites and shopping cart
Kinds == {"favorite", "shoppingcart"}

Table(kind) == IF kind = "favorite" THEN favorite ELSE shoppingcart

\* Whether the table of `kind` carries the UniqueConstraint on (user, recipe).
\* BaseInteractionModel.Meta declares it, but Favorite and ShoppingCart each
\* declare a Meta of their own that does not extend BaseInteractionModel.Meta,
\* and Django then takes none of the abstract parent's Meta options: no
\* constraint is created on either table.
unique_interaction(kind) == FALSE

Call(model, user, id) == [model |-> model, user |-> user, id |-> id]

LoggedResponse(op, status, error, user, id) ==
    [Response(op, status, error) EXCEPT !.user = user, !.id = id]

\* The two tables after table `kind` became `rows`.
SetTable(kind, rows) ==
    /\ favorite' = IF kind = "favorite" THEN rows ELSE favorite
    /\ shoppingcart' = IF kind = "shoppingcart" THEN rows ELSE shoppingcart

\* POST /recipes/{r}/favorite/ or /shopping_cart/ : create_recipe_user up to
\* the SELECT of get_or_create.  A call whose SELECT finds no row goes on to
\* the INSERT, which is a later step.
create_recipe_user(kind, user, r) ==
    LET n == CopiesIn(<<user, r>>, Table(kind))
        op == "add_" \o kind
    IN
    /\ UNCHANGED <<recipe, next_recipe_id, recipeingredients, favorite,
                   shoppingcart, subscription>>
    /\ IF ~RecipeExists(r)
       THEN /\ response' = LoggedResponse(op, 404, "not_found", user, r)
            /\ UNCHANGED inflight
       ELSE IF user = Anonymous
       THEN \* the lookup user=AnonymousUser raises TypeError
            /\ response' = LoggedResponse(op, 500, "type_error", user, r)
            /\ UNCHANGED inflight
       ELSE IF n = 1
       THEN /\ response' = LoggedResponse(op, 400, "exists", user, r)
            /\ UNCHANGED inflight
       ELSE IF n > 1
       THEN /\ response' = LoggedResponse(op, 500,
                               "multiple_objects_returned", user, r)
            /\ UNCHANGED inflight
       ELSE /\ BagCardinality(inflight) < MaxInflight
            /\ inflight' = inflight (+) SetToBag({Call(kind, user, r)})
            /\ UNCHANGED response

\* The INSERT of get_or_create and the rest of create_recipe_user.
create_recipe_user_insert(kind, user, r) ==
    LET n == CopiesIn(<<user, r>>, Table(kind))
        op == "add_" \o kind
    IN
    /\ BagIn(Call(kind, user, r), inflight)
    /\ inflight' = inflight (-) SetToBag({Call(kind, user, r)})
    /\ UNCHANGED <<recipe, next_recipe_id, recipeingredients, subscription>>
    /\ IF ~RecipeExists(r)
       THEN \* the foreign key refuses the row; get_or_create re-raises
            /\ response' = LoggedResponse(op, 500, "integrity_error", user, r)
            /\ UNCHANGED <<favorite, shoppingcart>>
       ELSE IF unique_interaction(kind) /\ n > 0
       THEN \* IntegrityError: get_or_create returns the row, created = False
            /\ response' = LoggedResponse(op, 400, "exists", user, r)
            /\ UNCHANGED <<favorite, shoppingcart>>
       ELSE /\ SetTable(kind, Table(kind) (+) SetToBag({<<user, r>>}))
            /\ response' = LoggedResponse(op, 201, "none", user, r)

\* DELETE /recipes/{r}/favorite/ or /shopping_cart/ : delete_recipe_user.
delete_recipe_user(kind, user, r) ==
    LET n == CopiesIn(<<user, r>>, Table(kind))
        op == "remove_" \o kind
    IN
    /\ UNCHANGED <<recipe, next_recipe_id, recipeingredients, subscription,
                   inflight>>
    /\ IF ~RecipeExists(r)
       THEN /\ response' = LoggedResponse(op, 404, "not_found", user, r)
            /\ UNCHANGED <<favorite, shoppingcart>>
       ELSE IF user = Anonymous
       THEN /\ response' = LoggedResponse(op, 500, "type_error", user, r)
            /\ UNCHANGED <<favorite, shoppingcart>>
       ELSE IF n = 0
       THEN /\ response' = LoggedResponse(op, 404, "not_found", user, r)
            /\ UNCHANGED <<favorite, shoppingcart>>
       ELSE IF n > 1
       THEN \* get_object_or_404 catches DoesNotExist only
            /\ response' = LoggedResponse(op, 500,
                               "multiple_objects_returned", user, r)
            /\ UNCHANGED <<favorite, shoppingcart>>
       ELSE /\ SetTable(kind, Table(kind) (-) SetToBag({<<user, r>>}))
            /\ response' = LoggedResponse(op, 204, "none", user, r)

\* ---------------------------------------------------- shopping-list export
RECURSIVE Repeat(_, _)
\* n copies of x.
Repeat(x, n) == IF n = 0 THEN <<>> ELSE <<x>> \o Repeat(x, n - 1)

RECURSIVE CartIngredients(_, _)
\* RecipeIngredients.objects.filter(recipe__shoppingcart__user=user)
\*     .values_list("ingredient__name", "ingredient__measurement_unit", "amount")
\* over rows 1..i of the table: the join gives a row once for every
\* ShoppingCart row of the user on its recipe, and Meta.ordering = ["-id"]
\* puts the latest row first.
CartIngredients(user, i) ==
    IF i = 0 THEN <<>>
    ELSE LET row == recipeingredients[i]
             item == [name |-> Ingredient[row.ingredient].name,
                      measurement_unit |->
                          Ingredient[row.ingredient].measurement_unit,
                      amount |-> row.amount]
         IN  Repeat(item, CopiesIn(<<user, row.recipe>>, shoppingcart))
             \o CartIngredients(user, i - 1)

RECURSIVE shopping_result(_, _)
\* The loop that fills the dict shopping_result, whose key is the name; the
\* dict is the sequence of its entries in insertion order.
shopping_result(items, result) ==
    IF items = <<>> THEN result
    ELSE LET item == Head(items)
             at == {k \in 1..Len(result) : result[k].name = item.name}
         IN  IF at = {}
             THEN shopping_result(Tail(items), Append(result, item))
             ELSE LET k == CHOOSE k \in at : TRUE
                  IN  shopping_result(Tail(items),
                          [result EXCEPT ![k].amount = @ + item.amount])

\* str.capitalize() on the names of the catalog.
capitalize(name) ==
    CASE name = "flour" -> "Flour"
      [] name = "salt"  -> "Salt"

\* The lines of the exported document: "{i}. {Name}: {amount} {unit}".
Output(result) ==
    [i \in 1..Len(result) |->
        [index |-> i, name |-> capitalize(result[i].name),
         amount |-> result[i].amount,
         measurement_unit |-> result[i].measurement_unit]]

ShoppingList(user) ==
    Output(shopping_result(CartIngredients(user, Len(recipeingredients)),
                           <<>>))

\* GET /recipes/download_shopping_cart/ (IsAuthenticated).
download_shopping_cart(user) ==
    /\ UNCHANGED <<recipe, next_recipe_id, recipeingredients, favorite,
                   shoppingcart, subscription, inflight>>
    /\ IF user = Anonymous
       THEN \E st \in DeniedStatus(user) :
               response' = LoggedResponse("download", st,
                                          "not_authenticated", user, 0)
       ELSE response' =
               [LoggedResponse("download", 200, "none", user, 0)
                   EXCEPT !.body = ShoppingList(user)]

\* ------------------------------------------------------------ subscriptions
\* Subscription.Meta without its UniqueConstraint.
unique_subscription_dropped == FALSE

\* The UniqueConstraint on (user, author) of Subscription.Meta.
unique_subscription == TRUE

\* The CheckConstraint ~Q(user=F("author")) of Subscription.Meta.
check_not_self(user, author) == user # author

UserExists(id) == id \in Users

\* subscribe without its check of the author against the caller.
is_self_unchecked(user, author) == FALSE

\* "author == user" of subscribe.
is_self(user, author) == author = user

\* The delete of a queryset filtered by the user alone.
delete_by_user(table, user, author) ==
    [e \in {x \in BagToSet(table) : x[1] # user} |-> table[e]]

\* Subscription.objects.filter(user=user, author=author).delete(): the table
\* without the rows of the pair.
delete(table, user, author) ==
    [e \in BagToSet(table) \ {<<user, author>>} |-> table[e]]

\* The values of the query parameter recipes_limit of a request.
Limits == {"absent", "1", "2", "3"}

RECURSIVE NewestIds(_)
\* Recipe ids in Recipe.Meta.ordering: newest first, that is by falling id.
NewestIds(ids) ==
    IF ids = {} THEN <<>>
    ELSE LET top == CHOOSE x \in ids : \A y \in ids : y <= x
         IN  <<top>> \o NewestIds(ids \ {top})

\* The field "recipes" of SubscriptionSerializer.  The class names it in
\* Meta.fields and declares no SerializerMethodField for it, so
\* ModelSerializer builds it from the reverse relation User.recipes: a
\* PrimaryKeyRelatedField(many=True) over obj.recipes.all().  get_recipes,
\* the only reader of recipes_limit, is never called.
recipes(author, recipes_limit) ==
    NewestIds({r \in RecipeIds : RecipeExists(r) /\ recipe[r].author = author})

\* SubscriptionSerializer(author).data, as far as the recipes go.
SubscriptionSerializer(author, recipes_limit) ==
    [id |-> author, recipes |-> recipes(author, recipes_limit)]

\* POST /users/{id}/subscribe/ (IsAuthenticated) up to the SELECT of
\* get_or_create.
subscribe(user, id) ==
    /\ UNCHANGED <<recipe, next_recipe_id, recipeingredients, favorite,
                   shoppingcart, subscription>>
    /\ IF user = Anonymous
       THEN /\ \E st \in DeniedStatus(user) :
                   response' = LoggedResponse("subscribe", st,
                                              "not_authenticated", user, id)
            /\ UNCHANGED inflight
       ELSE IF ~UserExists(id)
       THEN /\ response' = LoggedResponse("subscribe", 404, "not_found",
                                          user, id)
            /\ UNCHANGED inflight
       ELSE IF is_self(user, id)
       THEN /\ response' = LoggedResponse("subscribe", 400, "self", user, id)
            /\ UNCHANGED inflight
       ELSE IF CopiesIn(<<user, id>>, subscription) = 1
       THEN /\ response' = LoggedResponse("subscribe", 400, "exists",
                                          user, id)
            /\ UNCHANGED inflight
       ELSE IF CopiesIn(<<user, id>>, subscription) > 1
       THEN /\ response' = LoggedResponse("subscribe", 500,
                               "multiple_objects_returned", user, id)
            /\ UNCHANGED inflight
       ELSE /\ BagCardinality(inflight) < MaxInflight
            /\ inflight' = inflight (+) SetToBag({Call("subscription",
                                                      user, id)})
            /\ UNCHANGED response

\* The INSERT of get_or_create and the rest of subscribe.
subscribe_insert(user, id) ==
    /\ BagIn(Call("subscription", user, id), inflight)
    /\ inflight' = inflight (-) SetToBag({Call("subscription", user, id)})
    /\ UNCHANGED <<recipe, next_recipe_id, recipeingredients, favorite,
                   shoppingcart>>
    /\ IF ~check_not_self(user, id)
       THEN \* IntegrityError, and the SELECT that follows finds no row
            /\ response' = LoggedResponse("subscribe", 500,
                                          "integrity_error", user, id)
            /\ UNCHANGED subscription
       ELSE IF unique_subscription /\ BagIn(<<user, id>>, subscription)
       THEN \* IntegrityError: get_or_create returns the row, created = False
            /\ response' = LoggedResponse("subscribe", 400, "exists",
                                          user, id)
            /\ UNCHANGED subscription
       ELSE /\ subscription' = subscription (+) SetToBag({<<user, id>>})
            /\ \E recipes_limit \in Limits :
                  response' =
                      [LoggedResponse("subscribe", 201, "none", user, id)
                          EXCEPT !.body =
                              <<SubscriptionSerializer(id, recipes_limit)>>]

\* DELETE /users/{id}/subscribe/ (IsAuthenticated) : delete_subscribe.
delete_subscribe(user, id) ==
    /\ UNCHANGED <<recipe, next_recipe_id, recipeingredients, favorite,
                   shoppingcart, inflight>>
    /\ IF user = Anonymous
       THEN /\ \E st \in DeniedStatus(user) :
                   response' = LoggedResponse("unsubscribe", st,
                                              "not_authenticated", user, id)
            /\ UNCHANGED subscription
       ELSE IF ~UserExists(id)
       THEN /\ response' = LoggedResponse("unsubscribe", 404, "not_found",
                                          user, id)
            /\ UNCHANGED subscription
       ELSE IF ~BagIn(<<user, id>>, subscription)
       THEN /\ response' = LoggedResponse("unsubscribe", 400,
                                          "not_subscribed", user, id)
            /\ UNCHANGED subscription
       ELSE /\ subscription' = delete(subscription, user, id)
            /\ response' = LoggedResponse("unsubscribe", 204, "none",
                                          user, id)

RECURSIVE Summaries(_, _)
\* The summaries of the authors in User.Meta.ordering (by id).
Summaries(authors, recipes_limit) ==
    IF authors = {} THEN <<>>
    ELSE LET first == CHOOSE x \in authors : \A y \in authors : x <= y
         IN  <<SubscriptionSerializer(first, recipes_limit)>>
             \o Summaries(authors \ {first}, recipes_limit)

\* GET /users/subscriptions/ (IsAuthenticated): the authors the caller
\* follows, on a page that holds them all.
subscriptions(user, recipes_limit) ==
    /\ UNCHANGED <<recipe, next_recipe_id, recipeingredients, favorite,
                   shoppingcart, subscription, inflight>>
    /\ IF user = Anonymous
       THEN \E st \in DeniedStatus(user) :
               response' = LoggedResponse("subscriptions", st,
                                          "not_authenticated", user, 0)
       ELSE response' =
               [LoggedResponse("subscriptions", 200, "none", user, 0)
                   EXCEPT !.body =
                       Summaries({a \in Users :
                                     BagIn(<<user, a>>, subscription)},
                                 recipes_limit)]

\* ------------------------------------------------- recipe list and detail
\* The users that hold the rows of an interaction table for recipe r, as a
\* bag.  NoUser is the NULL row of a LEFT OUTER JOIN that finds no row.
NoUser == [user |-> Anonymous, null |-> TRUE]
Holder(u) == [user |-> u, null |-> FALSE]

Joined(table, r) ==
    LET holders == {u \in Users : BagIn(<<u, r>>, table)}
    IN  IF holders = {} THEN SetToBag({NoUser})
        ELSE [h \in {Holder(u) : u \in holders} |-> table[<<h.user, r>>]]

\* RecipeViewSet.get_queryset: the result rows as a bag.  For an
\* authenticated viewer the two Case/When annotations join the favorite and
\* the shoppingcart tables (LEFT OUTER), whoever holds the rows: a recipe
\* has one result row per pair of joined rows.  A row keeps the holders of
\* the two joined rows; an anonymous viewer's queryset is not annotated.
get_queryset(viewer) ==
    LET Existing == {r \in RecipeIds : RecipeExists(r)}
        Plain == {[id |-> r, annotated |-> FALSE, favorite |-> NoUser,
                   shoppingcart |-> NoUser] : r \in Existing}
        Annotated ==
            UNION {{[id |-> r, annotated |-> TRUE, favorite |-> f,
                     shoppingcart |-> c] :
                        f \in BagToSet(Joined(favorite, r)),
                        c \in BagToSet(Joined(shoppingcart, r))} :
                   r \in Existing}
    IN  IF viewer = Anonymous
        THEN SetToBag(Plain)
        ELSE [row \in Annotated |->
                Joined(favorite, row.id)[row.favorite]
                    * Joined(shoppingcart, row.id)[row.shoppingcart]]

\* The value of the annotations of a result row: When(favorite__user=user)
\* and When(shoppingcart__user=user).
is_favorited(viewer, row) == row.annotated /\ row.favorite = Holder(viewer)
is_in_shopping_cart(viewer, row) ==
    row.annotated /\ row.shoppingcart = Holder(viewer)

\* RecipeFilter.filter_favorite_or_cart: for a true value and an
\* authenticated user the queryset is filtered on <table>__user = user,
\* which joins the table once more (INNER); otherwise it is returned as is.
Filters == {"none", "is_favorited", "is_in_shopping_cart"}

filter_favorite_or_cart(queryset, name, viewer) ==
    LET table == IF name = "is_favorited" THEN favorite ELSE shoppingcart
        Kept == {row \in BagToSet(queryset) : BagIn(<<viewer, row.id>>, table)}
    IN  IF name # "none" /\ viewer # Anonymous
        THEN [row \in Kept |-> queryset[row] * table[<<viewer, row.id>>]]
        ELSE queryset

filter_queryset(viewer, name) ==
    filter_favorite_or_cart(get_queryset(viewer), name, viewer)

\* user_authentication_required: the wrapped method answers False without
\* a look at the object when the request's user is anonymous.
is_anonymous_unchecked(viewer) == FALSE
is_anonymous(viewer) == viewer = Anonymous

\* RecipeSerializer.get_is_favorited / get_is_in_shopping_cart call
\* obj.is_favorited(user) and obj.is_in_shopping_cart(user).  Recipe defines
\* no such methods: on an annotated row the attribute is the annotation's
\* boolean, and calling it raises TypeError; on a row that is not annotated
\* the attribute is missing, and the access raises AttributeError.
get_flag(viewer, row) ==
    IF is_anonymous(viewer) THEN "False"
    ELSE IF row.annotated THEN "TypeError" ELSE "AttributeError"

\* RecipeSerializer.to_representation of one row.
Item(row) == [id |-> row.id, is_favorited |-> FALSE,
              is_in_shopping_cart |-> FALSE]

\* The rows of an unannotated queryset in Recipe.Meta.ordering: newest
\* first, that is by falling id.
RECURSIVE Newest(_)
Newest(rows) ==
    IF rows = {} THEN <<>>
    ELSE LET top == CHOOSE x \in rows : \A y \in rows : y.id <= x.id
         IN  <<Item(top)>> \o Newest(rows \ {top})

\* GET /recipes/: the filtered queryset is serialised row by row; the first
\* row whose flag cannot be computed aborts the request.
ListRecipes(viewer, name) ==
    LET queryset == filter_queryset(viewer, name)
        rows == BagToSet(queryset)
        raised == {get_flag(viewer, row) : row \in rows} \ {"False"}
    IN  /\ response' =
               IF raised # {}
               THEN [Response("list", 500, CHOOSE e \in raised : TRUE)
                        EXCEPT !.user = viewer]
               ELSE [Response("list", 200, "") EXCEPT
                        !.user = viewer, !.body = Newest(rows)]
        /\ UNCHANGED <<recipe, next_recipe_id, recipeingredients, favorite,
                       shoppingcart, subscription, inflight>>

\* GET /recipes/{id}/: get_object on the queryset (safe method, so the
\* object permission lets everyone through), then the serialiser.
RetrieveRecipe(viewer, r) ==
    LET found == {row \in BagToSet(get_queryset(viewer)) : row.id = r}
        copies == BagCardinality([row \in found |-> get_queryset(viewer)[row]])
        row == CHOOSE x \in found : TRUE
    IN  /\ response' =
               [(IF found = {} THEN Response("retrieve", 404, "not_found")
                 ELSE IF copies > 1
                 THEN Response("retrieve", 500, "MultipleObjectsReturned")
                 ELSE IF get_flag(viewer, row) # "False"
                 THEN Response("retrieve", 500, get_flag(viewer, row))
                 ELSE [Response("retrieve", 200, "") EXCEPT
                          !.body = <<Item(row)>>])
                EXCEPT !.user = viewer, !.id = r]
        /\ UNCHANGED <<recipe, next_recipe_id, recipeingredients, favorite,
                       shoppingcart, subscription, inflight>>

\* ------------------------------------------------------- specifications
\* What the write handlers read of a payload: the verdict of is_valid and
\* (for the response log) whether an ingredient is named twice; of a payload
\* that is_valid accepts also the tags and the name they store and what
\* create_recipe_ingredient makes of the lines.
Reads(p) ==
    IF is_valid(p) # "none"
    THEN <<is_valid(p), RepeatedId(p.ingredients)>>
    ELSE <<is_valid(p), RepeatedId(p.ingredients), p.tags, p.name,
           create_recipe_ingredient(CHOOSE r \in RecipeIds : TRUE,
                                    p.ingredients)>>

\* One payload for each value of Reads over all of Payloads: two payloads
\* that agree on Reads take every write handler through the same step.
WritePayloads ==
    {CHOOSE p \in Payloads : Reads(p) = x : x \in {Reads(q) : q \in Payloads}}

\* The callers of the recipe writes: two authors and the anonymous caller.
Authors == {1, 2}
Writers == Authors \cup {Anonymous}

Next ==
    \/ \E u \in Writers, p \in WritePayloads : CreateRecipe(u, p)
    \/ \E u \in Writers, r \in RecipeIds, p \in WritePayloads :
          UpdateRecipe(u, r, p)
    \/ \E u \in Writers, r \in RecipeIds : DestroyRecipe(u, r)
    \/ \E r \in RecipeIds, i \in IngredientIds, a \in Amounts :
          AdminAddRecipeIngredient(r, i, a)

Spec == Init /\ [][Next]_vars

\* A store with two recipes of two authors and no ingredient rows: what two
\* POST /recipes/ leave behind (see CreateRecipe).
InitStocked ==
    /\ recipe = [r \in RecipeIds |->
                    IF r = 1
                    THEN [author |-> 1, name |-> "soup", tags |-> {1}]
                    ELSE [author |-> 2, name |-> "pie", tags |-> {1}]]
    /\ next_recipe_id = 3
    /\ recipeingredients = <<>>
    /\ favorite = EmptyBag
    /\ shoppingcart = EmptyBag
    /\ subscription = EmptyBag
    /\ inflight = EmptyBag
    /\ response = [op |-> "none", status |-> 0, error |-> "none",
                   user |-> Anonymous, id |-> 0, repeated |-> FALSE,
                   body |-> <<>>]

\* The shopping cart and its export: user 1 shops for both recipes, user 2
\* for recipe 2, and any caller asks for the export.
CartCalls ==
    {c \in [user : Authors, id : RecipeIds] : c.user = 2 => c.id = 2}

NextCart ==
    \/ \E r \in RecipeIds, i \in IngredientIds, a \in Amounts :
          AdminAddRecipeIngredient(r, i, a)
    \/ \E c \in CartCalls : create_recipe_user("shoppingcart", c.user, c.id)
    \/ \E c \in CartCalls :
          create_recipe_user_insert("shoppingcart", c.user, c.id)
    \/ \E c \in CartCalls : delete_recipe_user("shoppingcart", c.user, c.id)
    \/ \E u \in Writers : download_shopping_cart(u)

SpecCart == InitStocked /\ [][NextCart]_vars

\* Favorites and shopping cart, with the recipes being deleted: users 1 and
\* 2 and the anonymous caller on the favorites of both recipes, and user 1
\* on the shopping cart of recipe 1.
InteractionCalls ==
    {c \in [model : Kinds, user : Writers, id : RecipeIds] :
        c.model = "shoppingcart" => c.user = 1 /\ c.id = 1}

NextInteraction ==
    \/ \E c \in InteractionCalls : create_recipe_user(c.model, c.user, c.id)
    \/ \E c \in InteractionCalls :
          create_recipe_user_insert(c.model, c.user, c.id)
    \/ \E c \in InteractionCalls : delete_recipe_user(c.model, c.user, c.id)
    \/ \E u \in Writers, r \in RecipeIds : DestroyRecipe(u, r)

SpecInteraction == InitStocked /\ [][NextInteraction]_vars

\* Reading the recipes while favorites and carts change: users 1 and 2 on
\* the favorites of recipe 1 and user 1 on the shopping cart of recipe 1;
\* both users and the anonymous caller list and retrieve both recipes.
ListingCalls == {c \in InteractionCalls : c.user \in Authors /\ c.id = 1}

NextListing ==
    \/ \E c \in ListingCalls : create_recipe_user(c.model, c.user, c.id)
    \/ \E c \in ListingCalls :
          create_recipe_user_insert(c.model, c.user, c.id)
    \/ \E c \in ListingCalls : delete_recipe_user(c.model, c.user, c.id)
    \/ \E v \in Writers, name \in Filters : ListRecipes(v, name)
    \/ \E v \in Writers, r \in RecipeIds : RetrieveRecipe(v, r)

SpecListing == InitStocked /\ [][NextListing]_vars

\* Deleting recipes that have ingredient rows, favorites and cart rows:
\* the admin adds rows of amount 1, user 1 shops for both recipes, user 2
\* marks recipe 1 as favorite, the authors delete, user 1 exports.
CascadeCalls ==
    {c \in [model : Kinds, user : Authors, id : RecipeIds] :
        IF c.model = "shoppingcart" THEN c.user = 1
        ELSE c.user = 2 /\ c.id = 1}

NextCascade ==
    \/ \E r \in RecipeIds, i \in IngredientIds :
          AdminAddRecipeIngredient(r, i, 1)
    \/ \E c \in CascadeCalls : create_recipe_user(c.model, c.user, c.id)
    \/ \E c \in CascadeCalls :
          create_recipe_user_insert(c.model, c.user, c.id)
    \/ \E u \in Authors, r \in RecipeIds : DestroyRecipe(u, r)
    \/ download_shopping_cart(1)

SpecCascade == InitStocked /\ [][NextCascade]_vars

\* Author summaries: author 1 publishes recipes, users 2 and 3 subscribe to
\* author 1 and read their subscriptions with a recipes_limit.
SummaryPayloads == {p \in WritePayloads : is_valid(p) = "none"}

NextSummary ==
    \/ \E p \in SummaryPayloads : CreateRecipe(1, p)
    \/ \E u \in Users \ {1} : subscribe(u, 1)
    \/ \E u \in Users \ {1} : subscribe_insert(u, 1)
    \/ \E u \in Users \ {1} : delete_subscribe(u, 1)
    \/ \E u \in (Users \ {1}) \cup {Anonymous}, l \in Limits :
          subscriptions(u, l)

SpecSummary == Init /\ [][NextSummary]_vars

\* Subscriptions.
NextSubscription ==
    \/ \E u \in Callers, a \in Users \cup {MissingUser} : subscribe(u, a)
    \/ \E u \in Users, a \in Users : subscribe_insert(u, a)
    \/ \E u \in Callers, a \in Users \cup {MissingUser} :
          delete_subscribe(u, a)

SpecSubscription == Init /\ [][NextSubscription]_vars

\* ------------------------------------------------------------------ claims
\* The recipes in the shopping cart of user.
InCart(user, r) == BagIn(<<user, r>>, shoppingcart)

\* The ingredients the recipes in the cart of user use.
CartUses(user) ==
    {i \in IngredientIds :
        \E k \in 1..Len(recipeingredients) :
            /\ recipeingredients[k].ingredient = i
            /\ InCart(user, recipeingredients[k].recipe)}

RECURSIVE CartSum(_, _, _)
\* The sum of amount over rows 1..n of ingredient i in the cart of user.
CartSum(user, i, n) ==
    IF n = 0 THEN 0
    ELSE CartSum(user, i, n - 1)
         + (IF /\ recipeingredients[n].ingredient = i
               /\ InCart(user, recipeingredients[n].recipe)
            THEN recipeingredients[n].amount ELSE 0)

\* The lines of an export that are ingredient i's: its name and its unit.
LinesOf(body, i) ==
    {k \in 1..Len(body) :
        /\ body[k].name = capitalize(Ingredient[i].name)
        /\ body[k].measurement_unit = Ingredient[i].measurement_unit}

\* C1: the export a user asks for shows, for every ingredient the recipes of
\* the user's cart use, exactly one line, whose amount is the sum of amount
\* over the rows of that ingredient in the cart's recipes; it has no other
\* line, so that rows of recipes outside the cart contribute nothing.
C1_ExportSumsCartRows ==
    [][\A u \in Users :
          download_shopping_cart(u) =>
              /\ Len(response'.body) = Cardinality(CartUses(u))
              /\ \A i \in CartUses(u) :
                    /\ Cardinality(LinesOf(response'.body, i)) = 1
                    /\ \A k \in LinesOf(response'.body, i) :
                          response'.body[k].amount =
                              CartSum(u, i, Len(recipeingredients))]_vars

\* C2: two catalog ingredients of one name and two units, both used by the
\* recipes of the user's cart, are two lines of the export, each with its
\* own unit and its own sum.
C2_ExportGroupsByIngredient ==
    [][\A u \in Users : \A i, j \in CartUses(u) :
          /\ download_shopping_cart(u)
          /\ i # j
          /\ Ingredient[i].name = Ingredient[j].name
          => \E k \in LinesOf(response'.body, i),
                l \in LinesOf(response'.body, j) :
                /\ k # l
                /\ response'.body[k].amount =
                       CartSum(u, i, Len(recipeingredients))
                /\ response'.body[l].amount =
                       CartSum(u, j, Len(recipeingredients))]_vars

\* The (ingredient, amount) pairs a payload submits.
Submitted(p) ==
    {<<to_internal_value(p.ingredients[k].id), p.ingredients[k].amount>> :
        k \in 1..Len(p.ingredients)}

\* C3: a create or an update that fails, at whatever step, leaves the Recipe
\* rows, their tags and the RecipeIngredients rows as they were.
C3_WritesAllOrNothing ==
    [][\A u \in Writers, r \in RecipeIds, p \in WritePayloads :
          /\ CreateRecipe(u, p) \/ UpdateRecipe(u, r, p)
          /\ response'.status \notin {200, 201}
          => UNCHANGED recipe_store]_vars

\* C4: after a create or an update with a payload that passes validation
\* (by an authenticated caller, on a name the author has not used, and for an
\* update on a recipe of the caller) the recipe holds exactly the submitted
\* tags and exactly the submitted (ingredient, amount) pairs.
C4_WriteRoundTrips ==
    [][\A u \in Authors, r \in RecipeIds, p \in WritePayloads :
          /\ is_valid(p) = "none"
          /\ \/ /\ CreateRecipe(u, p)
                /\ r = next_recipe_id
                /\ ~RecipeNameTaken(u, p.name)
             \/ /\ UpdateRecipe(u, r, p)
                /\ get_object(u, r) = "ok"
                /\ \A o \in RecipeIds \ {r} :
                       ~(/\ RecipeExists(o)
                         /\ recipe[o].author = u
                         /\ recipe[o].name = p.name)
          => /\ recipe'[r].tags = p.tags
             /\ IngredientsOf(recipeingredients', r) = Submitted(p)]_vars

\* Rows of the table for recipe r and ingredient i.
RowCount(rows, r, i) ==
    Cardinality({k \in 1..Len(rows) :
                    rows[k].recipe = r /\ rows[k].ingredient = i})

\* C5: a create or an update by an authenticated caller whose payload names
\* one ingredient on two lines is rejected and leaves the Recipe rows and the
\* RecipeIngredients rows as they were, and a recipe never has two rows of
\* one ingredient.
C5_RepeatedIngredientRejected ==
    [][/\ \A u \in Authors, r \in RecipeIds, p \in WritePayloads :
             /\ CreateRecipe(u, p) \/ UpdateRecipe(u, r, p)
             /\ RepeatedId(p.ingredients)
             => /\ response'.status \in {400, 401, 403, 404}
                /\ UNCHANGED recipe_store
       /\ \A r \in RecipeIds, i \in IngredientIds :
             RowCount(recipeingredients', r, i) <= 1]_vars

\* The rows of the pair (user, r) in table `kind` of the tables fav and cart.
PairRows(kind, user, r, fav, cart) ==
    CopiesIn(<<user, r>>, IF kind = "favorite" THEN fav ELSE cart)

\* C6: two adds of one (user, recipe) pair and one kind that interleave
\* leave at most one row of the pair: the INSERT that finds a row is refused
\* and its request answers "already exists".
C6_ConcurrentAddsOneRow ==
    [][\A c \in InteractionCalls :
          create_recipe_user_insert(c.model, c.user, c.id) =>
              /\ PairRows(c.model, c.user, c.id, favorite', shoppingcart') <= 1
              /\ PairRows(c.model, c.user, c.id, favorite, shoppingcart) >= 1
                 => /\ response'.status = 400
                    /\ response'.error = "exists"]_vars

\* C7: for an authenticated user and either kind, an add on a pair that has
\* a row answers the conflict and a remove on a pair that has no row answers
\* not-found; neither changes the tables.
C7_AddExistingRemoveMissing ==
    [][\A c \in InteractionCalls :
          LET n == PairRows(c.model, c.user, c.id, favorite, shoppingcart)
          IN  /\ /\ create_recipe_user(c.model, c.user, c.id)
                 /\ c.user \in Users
                 /\ RecipeExists(c.id)
                 /\ n >= 1
                 => /\ response'.status = 400
                    /\ response'.error = "exists"
                    /\ UNCHANGED <<favorite, shoppingcart>>
              /\ /\ delete_recipe_user(c.model, c.user, c.id)
                 /\ c.user \in Users
                 /\ n = 0
                 => /\ response'.status = 404
                    /\ UNCHANGED <<favorite, shoppingcart>>]_vars

\* C8: a subscribe of a user to the user's own id answers the
\* self-subscription error and starts no INSERT, and the table never holds a
\* row whose user is its author.
C8_SelfSubscribeRejected ==
    [][/\ \A u \in Users :
             subscribe(u, u) =>
                 /\ response'.status = 400
                 /\ response'.error = "self"
                 /\ UNCHANGED <<subscription, inflight>>
       /\ \A u \in Users : ~BagIn(<<u, u>>, subscription')]_vars

\* A self-subscription was refused while the table holds rows.
C8_Witness ==
    /\ response.op = "subscribe"
    /\ response.status = 400
    /\ response.error = "self"
    /\ response.user = response.id
    /\ subscription # EmptyBag

\* C9: a subscribe on a pair that has a row (found by the SELECT, or by the
\* INSERT of a request that raced another) answers "already subscribed" and
\* leaves the table as it was, and the table never holds two rows of a pair.
C9_ResubscribeRejected ==
    [][/\ \A u, a \in Users :
             /\ subscribe(u, a) \/ subscribe_insert(u, a)
             /\ BagIn(<<u, a>>, subscription)
             => /\ response'.status = 400
                /\ response'.error = "exists"
                /\ UNCHANGED subscription
       /\ \A u, a \in Users : CopiesIn(<<u, a>>, subscription') <= 1]_vars

\* A subscribe was refused as a repeat, and the pair has its one row.
C9_Witness ==
    /\ response.op = "subscribe"
    /\ response.status = 400
    /\ response.error = "exists"
    /\ CopiesIn(<<response.user, response.id>>, subscription) = 1

\* The table after an unsubscribe of (u, a) that found the row: that row is
\* gone and every other row is kept.
OnlyThatRowDeleted(u, a) ==
    \A x \in Users, y \in Users :
        CopiesIn(<<x, y>>, subscription') =
            IF <<x, y>> = <<u, a>> THEN 0
            ELSE CopiesIn(<<x, y>>, subscription)

\* C10 as the specification states it: an unsubscribe of a pair that has no
\* row answers 404 and deletes nothing; one of a pair that has a row deletes
\* exactly that row.
C10_UnsubscribeMissingNotFound ==
    [][\A u \in Users, a \in Users \cup {MissingUser} :
          delete_subscribe(u, a) =>
              IF BagIn(<<u, a>>, subscription)
              THEN OnlyThatRowDeleted(u, a)
              ELSE /\ response'.status = 404
                   /\ UNCHANGED subscription]_vars

\* C10, amended: an unsubscribe of a pair that has no row deletes nothing and
\* answers 400 "not subscribed" when the author exists (404 when there is no
\* such user); one of a pair that has a row answers 204 and deletes exactly
\* that row.
C10_UnsubscribeMissingRejected ==
    [][\A u \in Users, a \in Users \cup {MissingUser} :
          delete_subscribe(u, a) =>
              IF BagIn(<<u, a>>, subscription)
              THEN /\ response'.status = 204
                   /\ OnlyThatRowDeleted(u, a)
              ELSE /\ response'.status = IF UserExists(a) THEN 400 ELSE 404
                   /\ response'.error =
                          IF UserExists(a) THEN "not_subscribed"
                          ELSE "not_found"
                   /\ UNCHANGED subscription]_vars

\* An unsubscribe deleted its row and the user's other subscription is kept.
C10_Witness ==
    /\ response.op = "unsubscribe"
    /\ response.status = 204
    /\ ~BagIn(<<response.user, response.id>>, subscription)
    /\ \E a \in Users : BagIn(<<response.user, a>>, subscription)


\* ---------------------------------------------------------------- C11
\* C11: for an authenticated viewer every recipe of a list or detail
\* response carries is_favorited exactly when the viewer has a Favorite row
\* for it and is_in_shopping_cart exactly when the viewer has a ShoppingCart
\* row for it, and the response is produced without error.
FlagsOf(v, item) ==
    /\ item.is_favorited = BagIn(<<v, item.id>>, favorite)
    /\ item.is_in_shopping_cart = BagIn(<<v, item.id>>, shoppingcart)

C11_ViewerFlagsFollowOwnRows ==
    [][\A v \in Users :
          /\ \A name \in Filters :
                ListRecipes(v, name) =>
                    /\ response'.status = 200
                    /\ \A k \in DOMAIN response'.body :
                          FlagsOf(v, response'.body[k])
          /\ \A r \in RecipeIds :
                RetrieveRecipe(v, r) /\ RecipeExists(r) =>
                    /\ response'.status = 200
                    /\ response'.body # <<>>
                    /\ FlagsOf(v, response'.body[1])]_vars

\* ---------------------------------------------------------------- C12
\* C12: for the anonymous viewer a list or detail response is a 200 whose
\* recipes all carry is_favorited = false and is_in_shopping_cart = false;
\* the body is determined by the Recipe rows alone, whatever Favorite and
\* ShoppingCart rows the store holds.
Unflagged(r) == [id |-> r, is_favorited |-> FALSE,
                 is_in_shopping_cart |-> FALSE]

C12_AnonymousFlagsFalse ==
    [][/\ \A name \in Filters :
             ListRecipes(Anonymous, name) =>
                 /\ response'.status = 200
                 /\ {response'.body[k] : k \in DOMAIN response'.body}
                        = {Unflagged(r) : r \in {x \in RecipeIds : RecipeExists(x)}}
                 /\ Len(response'.body)
                        = Cardinality({x \in RecipeIds : RecipeExists(x)})
       /\ \A r \in RecipeIds :
             RetrieveRecipe(Anonymous, r) /\ RecipeExists(r) =>
                 /\ response'.status = 200
                 /\ response'.body = <<Unflagged(r)>>]_vars

C12_Witness ==
    /\ response.op = "list"
    /\ response.user = Anonymous
    /\ response.status = 200
    /\ Len(response.body) = 2
    /\ \E r \in RecipeIds : BagIn(<<1, r>>, favorite)
    /\ BagIn(<<1, 1>>, shoppingcart)

\* ---------------------------------------------------------------- C13
\* C13: a list request with the is_favorited (is_in_shopping_cart) filter by
\* an authenticated viewer returns exactly the recipes that have a Favorite
\* (ShoppingCart) row of that viewer; for the anonymous viewer the filter is
\* skipped and the result is the unfiltered listing, without error.
BodyIds == {response'.body[k].id : k \in DOMAIN response'.body}

C13_FilterSelectsOwnRows ==
    [][\A v \in Writers, name \in Filters \ {"none"} :
          ListRecipes(v, name) =>
              /\ response'.status = 200
              /\ BodyIds =
                    IF v = Anonymous
                    THEN {r \in RecipeIds : RecipeExists(r)}
                    ELSE {r \in RecipeIds :
                            /\ RecipeExists(r)
                            /\ BagIn(<<v, r>>,
                                     IF name = "is_favorited" THEN favorite
                                     ELSE shoppingcart)}]_vars

\* ---------------------------------------------------------------- C18
\* C18: the listing built for an authenticated viewer holds each stored
\* recipe that matches the filter exactly once, however many Favorite and
\* ShoppingCart rows exist: as many rows as matching recipes, and no recipe
\* both with a flag true and with the same flag false.  The statement is
\* taken for stores in which no pair holds a row twice.
Matching(v, name) ==
    {r \in RecipeIds :
        /\ RecipeExists(r)
        /\ name = "is_favorited" => BagIn(<<v, r>>, favorite)
        /\ name = "is_in_shopping_cart" => BagIn(<<v, r>>, shoppingcart)}

\* No (user, recipe) pair holds more than one row of a table.
OneRowPerPair ==
    \A u \in Users, r \in RecipeIds :
        /\ CopiesIn(<<u, r>>, favorite) <= 1
        /\ CopiesIn(<<u, r>>, shoppingcart) <= 1

C18_ListingHoldsRecipeOnce ==
    [][\A v \in Users, name \in Filters :
          ListRecipes(v, name) /\ OneRowPerPair =>
              LET queryset == filter_queryset(v, name)
                  rows == BagToSet(queryset)
              IN  /\ BagCardinality(queryset) = Cardinality(Matching(v, name))
                  /\ \A x, y \in rows :
                        x.id = y.id =>
                            /\ is_favorited(v, x) = is_favorited(v, y)
                            /\ is_in_shopping_cart(v, x)
                                  = is_in_shopping_cart(v, y)]_vars


\* ---------------------------------------------------------------- C14
\* C14: a recipe write (create, update, delete) by the anonymous caller or
\* by a user who is not the recipe's author is rejected with a permission
\* error and leaves the Recipe rows, their tag links and the
\* RecipeIngredient rows unchanged.  The anonymous caller's 401 counts as
\* the permission error, and the create carries a payload that validates.
PermissionError(u) == response'.status \in DeniedStatus(u)

C14_WritesNeedAuthor ==
    [][\A u \in Writers :
          /\ \A p \in WritePayloads :
                CreateRecipe(u, p) /\ u = Anonymous /\ is_valid(p) = "none" =>
                    PermissionError(u) /\ UNCHANGED recipe_store
          /\ \A r \in RecipeIds :
                RecipeExists(r) /\ recipe[r].author # u =>
                    /\ \A p \in WritePayloads :
                          UpdateRecipe(u, r, p) =>
                              PermissionError(u) /\ UNCHANGED recipe_store
                    /\ DestroyRecipe(u, r) =>
                          PermissionError(u) /\ UNCHANGED recipe_store]_vars


\* ---------------------------------------------------------------- C15
\* C15: deleting a recipe removes all its RecipeIngredient, Favorite and
\* ShoppingCart rows; in every reachable state each such row refers to an
\* existing recipe, and every line of an export comes from an ingredient row
\* of an existing recipe in the caller's cart.
RowsRefer ==
    /\ \A k \in DOMAIN recipeingredients :
          RecipeExists(recipeingredients[k].recipe)
    /\ \A x \in BagToSet(favorite) : RecipeExists(x[2])
    /\ \A x \in BagToSet(shoppingcart) : RecipeExists(x[2])

NoRowOf(r) ==
    /\ RowsOf(recipeingredients, r) = {}
    /\ RowsForRecipe(favorite, r) = 0
    /\ RowsForRecipe(shoppingcart, r) = 0

C15_DeleteCascades ==
    /\ []RowsRefer
    /\ [][/\ \A u \in Authors, r \in RecipeIds :
                DestroyRecipe(u, r) /\ response'.status = 204 =>
                    ~RecipeExists(r)' /\ NoRowOf(r)'
          /\ \A u \in Authors :
                download_shopping_cart(u) =>
                    \A k \in DOMAIN response'.body :
                        \E j \in DOMAIN recipeingredients :
                            /\ RecipeExists(recipeingredients[j].recipe)
                            /\ BagIn(<<u, recipeingredients[j].recipe>>,
                                     shoppingcart)
                            /\ capitalize(Ingredient[
                                   recipeingredients[j].ingredient].name)
                                  = response'.body[k].name]_vars

\* A recipe was deleted while the other keeps its rows, and a pending
\* INSERT for the deleted recipe is still to come.
C15_Witness ==
    /\ response.op = "destroy"
    /\ response.status = 204
    /\ ~RecipeExists(1)
    /\ RecipeExists(2)
    /\ recipeingredients # <<>>
    /\ BagIn(<<1, 2>>, shoppingcart)
    /\ \E c \in CascadeCalls : c.id = 1 /\ BagIn(c, inflight)


\* ---------------------------------------------------------------- C17
\* C17: the export is an enumerated list: for a cart whose recipes use n
\* distinct ingredients it has exactly n lines, numbered 1..n, in the order
\* in which the ingredients are first met in the joined rows; for a cart
\* without ingredient rows it is the empty document, answered with 200.
FirstMet(items, line) ==
    LET at == {k \in 1..Len(items) :
                  /\ capitalize(items[k].name) = line.name
                  /\ items[k].measurement_unit = line.measurement_unit}
    IN  IF at = {} THEN 0 ELSE CHOOSE k \in at : \A j \in at : k <= j

C17_ExportEnumerates ==
    [][\A u \in Users :
          download_shopping_cart(u) =>
              LET body == response'.body
                  items == CartIngredients(u, Len(recipeingredients))
              IN  /\ response'.status = 200
                  /\ Len(body) = Cardinality(CartUses(u))
                  /\ \A k \in 1..Len(body) :
                        /\ body[k].index = k
                        /\ FirstMet(items, body[k]) > 0
                  /\ \A k, l \in 1..Len(body) :
                        k < l =>
                            FirstMet(items, body[k]) < FirstMet(items, body[l])
                  /\ items = <<>> => body = <<>>]_vars


\* ---------------------------------------------------------------- C16
\* C16: the author summary of a subscribe response and of the
\* subscriptions listing holds the author's recipes capped by
\* recipes_limit: min(n, number of the author's recipes) entries for
\* recipes_limit = n, and all of them without the parameter.
RecipesBy(author) ==
    Cardinality({r \in RecipeIds :
                    RecipeExists(r) /\ recipe[r].author = author})

Capped(recipes_limit, count) ==
    LET n == CASE recipes_limit = "1" -> 1
               [] recipes_limit = "2" -> 2
               [] recipes_limit = "3" -> 3
               [] OTHER -> count
    IN  IF n < count THEN n ELSE count

C16_SummaryCappedByLimit ==
    [][\A u \in Users, l \in Limits :
          \/ subscriptions(u, l)
          \/ \E a \in Users :
                /\ subscribe_insert(u, a)
                /\ response'.status = 201
                /\ response'.body = <<SubscriptionSerializer(a, l)>>
          => \A k \in DOMAIN response'.body :
                  Len(response'.body[k].recipes)
                      = Capped(l, RecipesBy(response'.body[k].id))]_vars

=========================================================================
